---------------------------- MODULE Spec2Model ----------------------------
(***************************************************************************)
(* Model of package langdet (src/langdet/detection.go): the Detector, its  *)
(* language collection, the out-of-place distance and the confidence       *)
(* threshold.                                                              *)
(*                                                                         *)
(* Representation.                                                         *)
(*   - A text is a sequence of words, a word a sequence of characters      *)
(*     (naturals); a token (n-gram) is a sequence of characters.           *)
(*   - A rank map / profile (Go map[string]int) is a function from a set   *)
(*     of tokens to integers.                                              *)
(*   - float32 MinimumConfidence is held in thousandths (700 is 0.7).      *)
(*   - d.Languages, a pointer to a slice, is << >> when nil and <<s>>      *)
(*     when it points to the slice s, a sequence of Language records.      *)
(***************************************************************************)
EXTENDS Integers, Sequences, FiniteSets, Bags, TLC

VARIABLES Languages, MinimumConfidence, call, dist, proc

vars == <<Languages, MinimumConfidence, call, dist, proc>>

---------------------------------------------------------------------------
(* Program constants *)

nDepth == 4

DefaultMinimumConfidence == 700

\* the literal 300 of closestFromTable and GetDistance
RankCap == 300

---------------------------------------------------------------------------
(* Bounds of the model *)

\* longest collection the add operations are explored up to
MaxLanguages == 2

\* long texts have RankCap .. RankCap + LongExtra distinct tokens
LongExtra == 1

\* number of tokens of the large stored profiles
ProfileSize == 40

\* goroutines sharing one Detector
NumProcs == 2

---------------------------------------------------------------------------
(* Values *)

Undefined == "undefined"

Names == {"en", "de", "fr"}

\* Stand-ins for math.MinInt64 and math.MaxInt64 (TLC integers are 32 bit):
\* all that the program does with them is compare them with percentages.
MinInt64 == -(2 ^ 24)

MaxInt64 == 2 ^ 24

\* int(NaN): the Go specification leaves the result of converting a
\* floating-point value that the integer type cannot represent to the
\* implementation: 0x8000000000000000 on amd64, 0 on arm64 and wasm,
\* the largest int64 on riscv64 and mips64.
IntOfNaN == {MinInt64, 0, MaxInt64}

Abs(x) == IF x < 0 THEN -x ELSE x

Min(a, b) == IF a <= b THEN a ELSE b

Size(m) == Cardinality(DOMAIN m)

EmptyMap == [t \in {} |-> 0]

---------------------------------------------------------------------------
(* Text profiling: the sources of CreateOccurenceMap, CreateRankLookupMap  *)
(* and Analyze are not in src/; they are modelled from sections 4.1 and    *)
(* 4.2 of the specification.                                               *)

\* every (word, start, length) of an n-gram of the text
NGramPositions(text, depth) ==
    UNION {{p \in {w} \X (1 .. Len(text[w])) \X (1 .. depth) :
                p[2] + p[3] - 1 <= Len(text[w])} : w \in 1 .. Len(text)}

NGramAt(text, p) == SubSeq(text[p[1]], p[2], p[2] + p[3] - 1)

CreateOccurenceMap(text, depth) ==
    LET pos == NGramPositions(text, depth)
    IN  [t \in {NGramAt(text, p) : p \in pos} |->
            Cardinality({p \in pos : NGramAt(text, p) = t})]

\* the fixed tie-break between tokens of equal count: shorter first, then
\* by the first character that differs
RECURSIVE LexLess(_, _)
LexLess(a, b) ==
    IF Len(b) = 0 THEN FALSE
    ELSE IF Len(a) = 0 THEN TRUE
    ELSE IF Head(a) # Head(b) THEN Head(a) < Head(b)
    ELSE LexLess(Tail(a), Tail(b))

TokenLess(a, b) == Len(a) < Len(b) \/ (Len(a) = Len(b) /\ LexLess(a, b))

CreateRankLookupMap(occ) ==
    [t \in DOMAIN occ |->
        1 + Cardinality({u \in DOMAIN occ :
                \/ occ[u] > occ[t]
                \/ occ[u] = occ[t] /\ TokenLess(u, t)})]

---------------------------------------------------------------------------
(* Inputs *)

\* a text of n one-letter words, all different
LongText(n) == [i \in 1 .. n |-> <<i>>]

\* The texts given to the detector: the empty text, three texts of one
\* word, and the long texts.  An operation is given a text by its place in
\* this table, and the record of a call holds that place.
TextTable ==
    << << >>, <<(<<1>>)>>, <<(<<1, 2>>)>>, <<(<<2, 1>>)>> >>
        \o [i \in 1 .. LongExtra + 1 |-> LongText(RankCap + i - 1)]

Texts == DOMAIN TextTable

EmptyText == Len(<<0>>)

OneLetterText == EmptyText + 1

ShortText == EmptyText + 2

LongestText == Len(TextTable)

\* the rank map of every text, as lines 146-147 and 158-159 compute it
lmapOf ==
    [text \in Texts |->
        CreateRankLookupMap(CreateOccurenceMap(TextTable[text], nDepth))]

Analyze(text, name) == [Name |-> name, Profile |-> lmapOf[text]]

\* a stored profile of ProfileSize one-letter tokens, ranks rotated by k
ShiftedProfile(k) ==
    [t \in {<<c>> : c \in 1 .. ProfileSize} |->
        ((t[1] - 1 + k) % ProfileSize) + 1]

\* stored languages: three more or less close to the one-letter text
\* <<1>> (token <<1>> displaced by 12, 14 and 19 ranks), one with an empty
\* profile
EnShifted == [Name |-> "en", Profile |-> ShiftedProfile(12)]

DeShifted == [Name |-> "de", Profile |-> ShiftedProfile(14)]

FrShifted == [Name |-> "fr", Profile |-> ShiftedProfile(19)]

FrEmpty == [Name |-> "fr", Profile |-> EmptyMap]

NoLanguage == [Name |-> "", Profile |-> EmptyMap]

\* the argument lists of the variadic AddLanguage: none, one or two
AddArguments ==
    { << >>, <<EnShifted>>, <<DeShifted>>, <<FrShifted>>, <<FrEmpty>>,
      <<FrEmpty, EnShifted>> }

\* the (text, name) pairs given to AddLanguageFromText
TrainArguments == {<<ShortText, "en">>, <<LongestText, "fr">>}

\* files of a directory: a subdirectory, a file that cannot be read, one
\* that is not JSON, one holding a Language
SubDir == [kind |-> "dir", lang |-> NoLanguage]

Unreadable == [kind |-> "unreadable", lang |-> NoLanguage]

Malformed == [kind |-> "malformed", lang |-> NoLanguage]

LanguageFile(l) == [kind |-> "language", lang |-> l]

\* the directories given to LoadLanguagesFromDir, as ReadDir lists them
Directories ==
    { << >>, <<LanguageFile(EnShifted)>>, <<SubDir, LanguageFile(FrEmpty)>>,
      <<LanguageFile(FrEmpty), LanguageFile(EnShifted)>>,
      <<LanguageFile(EnShifted), Unreadable>>,
      <<Malformed, LanguageFile(EnShifted)>> }

\* the arrays of languages NewWithLanguagesFromReader parses
ReaderContents == {<< >>, <<EnShifted>>}

\* the values a caller assigns to the field MinimumConfidence
MinimumConfidenceSettings == {0, 530, 1000, 1500}

SeqsUpTo(S, n) == UNION {[1 .. k -> S] : k \in 0 .. n}


---------------------------------------------------------------------------
(* GetDistance (lines 187-208) *)

\* DistanceStep without the test diff < negMaxDist of line 197
DistanceStep_NoLowerCap(key, mapA, mapB, maxDist) ==
    LET rankA == mapA[key]
    IN  IF rankA > RankCap THEN 0
        ELSE IF key \in DOMAIN mapB
             THEN LET diff == mapB[key] - rankA
                  IN  IF diff > maxDist THEN maxDist
                      ELSE IF diff < 0 THEN diff * (-1)
                      ELSE diff
             ELSE maxDist

\* one iteration of the loop over mapA: the value added to result
DistanceStep(key, mapA, mapB, maxDist) ==
    LET rankA == mapA[key]
        negMaxDist == (-1) * maxDist
    IN  IF rankA > RankCap THEN 0
        ELSE IF key \in DOMAIN mapB
             THEN LET diff == mapB[key] - rankA
                  IN  IF diff > maxDist \/ diff < negMaxDist THEN maxDist
                      ELSE IF diff < 0 THEN diff * (-1)
                      ELSE diff
             ELSE maxDist

\* result after the loop of lines 190-206: the sum of the steps over the
\* keys of mapA (a bag holds the keys with a step above 0, each as many
\* times as its step)
GetDistance(mapA, mapB, maxDist) ==
    BagCardinality(
        [key \in {k \in DOMAIN mapA : DistanceStep(k, mapA, mapB, maxDist) > 0}
            |-> DistanceStep(key, mapA, mapB, maxDist)])

---------------------------------------------------------------------------
(* asPercent (lines 211-213) *)

\* The whole percentages p for which the float32 product
\* float32(p / 100) * 100 falls just below p, so that int() gives p - 1
\* (IEEE 754 single precision, round to nearest even).
Float32Loss == {53, 59}

\* int(input * 100) for the float32 nearest to input / 1000.  A product
\* that is not a whole number is at least 0.1 away from one, far more
\* than the rounding error, and is truncated like the exact product.
asPercent(input) ==
    IF input % 10 = 0 /\ (input \div 10) \in Float32Loss
    THEN (input \div 10) - 1
    ELSE input \div 10

---------------------------------------------------------------------------
(* closestFromTable (lines 166-183) *)

\* The whole percentages x for which the float64 computation
\* (1 - d/m) * 100, with d/m = 1 - x/100 exactly, falls just below x
\* (IEEE 754 double precision).
Float64Loss == {7, 8, 9, 10, 11, 19, 20, 21, 22, 32, 33, 44, 45, 66}

\* FloatConfidence without the "1 -" of line 176
FloatConfidence_NoComplement(distance, maxPossibleDistance) ==
    (100 * distance) \div maxPossibleDistance

\* int((1 - float64(dist)/float64(maxPossibleDistance)) * 100), lines
\* 176-177, for 0 <= dist <= maxPossibleDistance # 0.  An exact value that
\* is not a whole number is at least 1/maxPossibleDistance away from one
\* and truncates like the exact value.
FloatConfidence(distance, maxPossibleDistance) ==
    LET num == 100 * (maxPossibleDistance - distance)
        x == num \div maxPossibleDistance
    IN  IF num % maxPossibleDistance = 0 /\ x \in Float64Loss
        THEN x - 1
        ELSE x

\* the values confidence can take: 0/0 is NaN, and int(NaN) is left to
\* the implementation
Confidences(distance, maxPossibleDistance) ==
    IF maxPossibleDistance = 0
    THEN IntOfNaN
    ELSE {FloatConfidence(distance, maxPossibleDistance)}

\* the values of confidence in the loop body for one language
LanguageConfidences(language, lookupMap) ==
    LET inputSize == IF Size(lookupMap) > RankCap THEN RankCap
                     ELSE Size(lookupMap)
        lSize == Size(language.Profile)
        maxPossibleDistance == lSize * inputSize
        d == GetDistance(lookupMap, language.Profile, lSize)
    IN  Confidences(d, maxPossibleDistance)

\* every language the inputs can put in a collection, every rank map a
\* text can have
KnownLanguages ==
    {EnShifted, DeShifted, FrShifted, FrEmpty}
        \cup {Analyze(a[1], a[2]) : a \in TrainArguments}

\* LanguageConfidences, tabulated by language and text
confidencesOf ==
    [language \in KnownLanguages |->
        [text \in Texts |-> LanguageConfidences(language, lmapOf[text])]]

\* res after the loop of lines 172-179, before it is sorted, for the rank
\* map of the text
ScoreAll(langs, text) ==
    LET n == Len(langs)
        cs == [i \in 1 .. n |-> confidencesOf[langs[i]][text]]
    IN  {[i \in 1 .. n |-> [Name |-> langs[i].Name, Confidence |-> f[i]]] :
            f \in {g \in [1 .. n -> UNION {cs[i] : i \in 1 .. n}] :
                        \A i \in 1 .. n : g[i] \in cs[i]}}

\* sort.Sort(ResByConf(res)): highest confidence first; sort.Sort is not
\* stable, so results of equal confidence come in any order.  ResByConf is
\* not in src/ and is modelled from section 4.4 of the specification.
ResByConf(res) ==
    LET n == Len(res)
        perms == {f \in [1 .. n -> 1 .. n] :
                     \A i, j \in 1 .. n : i # j => f[i] # f[j]}
    IN  {s \in {[i \in 1 .. n |-> res[f[i]]] : f \in perms} :
            \A i \in 1 .. n - 1 : s[i].Confidence >= s[i + 1].Confidence}

---------------------------------------------------------------------------
(* The Detector (lines 51-54): state and the record of the last call *)

\* d.Languages is a pointer to a slice: << >> when nil, <<s>> when it
\* points to the slice s
NilPtr == << >>

PtrTo(s) == <<s>>

\* the languages the detector holds
Held == IF Languages = NilPtr THEN << >> ELSE Languages[1]

\* What the last call did: its text (0 when it has none), res before and after
\* the sort, the returned name, whether the diagnostic of line 143 was
\* printed, whether the call panicked, MinimumConfidence on entry, the
\* number of languages it added, whether it returned an error.
NoCall ==
    [op |-> "none", text |-> 0, raw |-> << >>, c |-> << >>,
     out |-> "", printed |-> FALSE, panic |-> FALSE, min0 |-> 0,
     added |-> 0, err |-> FALSE]

NoDist == [op |-> "none", mapA |-> EmptyMap, mapB |-> EmptyMap, maxDist |-> 0,
           result |-> 0]

Procs == 1 .. NumProcs

IdleProc ==
    [pc |-> "idle", op |-> "none", langs |-> << >>, text |-> 0,
     l |-> << >>, c |-> << >>, out |-> ""]

\* NewDetector (lines 58-60)
NewDetector ==
    /\ Languages = PtrTo(<< >>)
    /\ MinimumConfidence = DefaultMinimumConfidence

\* NewWithLanguagesFromReader (lines 71-79), NewDefaultLanguages (64-68)
NewWithLanguagesFromReader ==
    /\ Languages \in {PtrTo(s) : s \in ReaderContents}
    /\ MinimumConfidence = DefaultMinimumConfidence

\* the zero value Detector{} of the exported struct
ZeroDetector ==
    /\ Languages = NilPtr
    /\ MinimumConfidence = 0

Init ==
    /\ NewDetector \/ NewWithLanguagesFromReader \/ ZeroDetector
    /\ call = NoCall
    /\ dist = NoDist
    /\ proc = [p \in Procs |-> IdleProc]

\* The caller is sequential: it starts an operation when it holds the
\* result of no other, and a panic ends the program.
Ready == call.op = "none"

\* the caller has taken the result of the call
Return ==
    /\ call.op # "none"
    /\ ~call.panic
    /\ call' = NoCall
    /\ UNCHANGED <<Languages, MinimumConfidence, dist, proc>>

\* the caller assigns the exported field (line 53)
SetMinimumConfidence(v) ==
    /\ Ready
    /\ MinimumConfidence' = v
    /\ call' = [NoCall EXCEPT !.op = "SetMinimumConfidence"]
    /\ UNCHANGED <<Languages, dist, proc>>

---------------------------------------------------------------------------
(* LoadLanguagesFromDir (lines 83-109) *)

\* the loop of lines 90-105 returns an error at the first file that cannot
\* be read or parsed
LoadFails(files) ==
    \E i \in 1 .. Len(files) : files[i].kind \in {"unreadable", "malformed"}

RECURSIVE Loaded(_)
Loaded(files) ==
    IF files = << >> THEN << >>
    ELSE IF Head(files).kind = "language"
         THEN <<Head(files).lang>> \o Loaded(Tail(files))
         ELSE Loaded(Tail(files))

LoadLanguagesFromDir(readDirOk, files) ==
    /\ Ready
    /\ IF readDirOk /\ ~LoadFails(files)
       THEN /\ Languages' = PtrTo(Loaded(files))
            /\ call' = [NoCall EXCEPT !.op = "LoadLanguagesFromDir"]
       ELSE /\ Languages' = Languages
            /\ call' = [NoCall EXCEPT !.op = "LoadLanguagesFromDir",
                                      !.err = TRUE]
    /\ UNCHANGED <<MinimumConfidence, dist, proc>>

---------------------------------------------------------------------------
(* AddLanguageFromText (lines 113-121), AddLanguage (lines 124-134) *)

\* lines 114-117 and 125-128: a nil pointer is replaced by an empty slice
OrEmpty(ptr) == IF ptr = NilPtr THEN << >> ELSE ptr[1]

\* AppendAll putting the new languages in front
AppendAll_Prepend(l, languages) == languages \o l

\* the loop of lines 130-132
AppendAll(l, languages) == l \o languages

AddLanguageFromText(textToAnalyze, languageName) ==
    /\ Ready
    /\ Len(Held) + 1 <= MaxLanguages
    /\ LET analyzedLanguage == Analyze(textToAnalyze, languageName)
           updatedList == Append(OrEmpty(Languages), analyzedLanguage)
       IN  Languages' = PtrTo(updatedList)
    /\ call' = [NoCall EXCEPT !.op = "AddLanguageFromText", !.added = 1]
    /\ UNCHANGED <<MinimumConfidence, dist, proc>>

AddLanguage(languages) ==
    /\ Ready
    /\ Len(Held) + Len(languages) <= MaxLanguages
    /\ LET l == AppendAll(OrEmpty(Languages), languages)
       IN  Languages' = PtrTo(l)
    /\ call' = [NoCall EXCEPT !.op = "AddLanguage",
                              !.added = Len(languages)]
    /\ UNCHANGED <<MinimumConfidence, dist, proc>>

---------------------------------------------------------------------------
(* GetClosestLanguage (lines 138-154), GetLanguages (lines 157-162) *)

\* Validated with < 0 for the <= 0 of line 139
Validated_StrictZero(minimumConfidence) ==
    IF minimumConfidence < 0 \/ minimumConfidence > 1000
    THEN DefaultMinimumConfidence
    ELSE minimumConfidence

\* lines 139-141
Validated(minimumConfidence) ==
    IF minimumConfidence <= 0 \/ minimumConfidence > 1000
    THEN DefaultMinimumConfidence
    ELSE minimumConfidence

\* lines 150-153
Closest(c, minimumConfidence) ==
    IF Len(c) = 0 \/ c[1].Confidence < asPercent(minimumConfidence)
    THEN Undefined
    ELSE c[1].Name

GetClosestLanguage(text) ==
    /\ Ready
    /\ MinimumConfidence' = Validated(MinimumConfidence)
    /\ LET entry == [NoCall EXCEPT !.op = "GetClosestLanguage",
                                   !.min0 = MinimumConfidence]
       IN  IF Languages = NilPtr
           THEN \* line 142 dereferences the nil pointer
                call' = [entry EXCEPT !.panic = TRUE]
           ELSE IF Len(Languages[1]) = 0
           THEN call' = [entry EXCEPT !.printed = TRUE, !.out = Undefined]
           ELSE \E raw \in ScoreAll(Languages[1], text) :
                \E c \in ResByConf(raw) :
                    call' = [entry EXCEPT
                                !.text = text, !.raw = raw, !.c = c,
                                !.out = Closest(c, MinimumConfidence')]
    /\ UNCHANGED <<Languages, dist, proc>>

GetLanguages(text) ==
    /\ Ready
    /\ LET entry == [NoCall EXCEPT !.op = "GetLanguages"]
       IN  IF Languages = NilPtr
           THEN \* line 172 dereferences the nil pointer
                call' = [entry EXCEPT !.panic = TRUE]
           ELSE \E raw \in ScoreAll(Languages[1], text) :
                \E c \in ResByConf(raw) :
                    call' = [entry EXCEPT
                                !.text = text, !.raw = raw, !.c = c]
    /\ UNCHANGED <<Languages, MinimumConfidence, dist, proc>>

Next ==
    \/ \E v \in MinimumConfidenceSettings : SetMinimumConfidence(v)
    \/ \E files \in Directories : LoadLanguagesFromDir(TRUE, files)
    \/ LoadLanguagesFromDir(FALSE, << >>)
    \/ \E a \in TrainArguments : AddLanguageFromText(a[1], a[2])
    \/ \E languages \in AddArguments : AddLanguage(languages)
    \/ \E text \in Texts : GetClosestLanguage(text)
    \/ \E text \in Texts : GetLanguages(text)
    \/ Return

Spec == Init /\ [][Next]_vars

---------------------------------------------------------------------------
(* GetDistance as a function of its arguments *)

\* ranks 1 .. MaxRank and the two ranks around the cap
MaxRank == 2

DistTokens == {<<1>>, <<2>>}

DistRanks == (1 .. MaxRank) \cup {RankCap, RankCap + 1}

PartialMaps(T, R) == UNION {[D -> R] : D \in SUBSET T}

InitDistance ==
    /\ Languages = PtrTo(<< >>)
    /\ MinimumConfidence = DefaultMinimumConfidence
    /\ call = NoCall
    /\ proc = [p \in Procs |-> IdleProc]
    /\ dist \in [op : {"pending"},
                 mapA : PartialMaps(DistTokens, DistRanks),
                 mapB : PartialMaps(DistTokens, DistRanks),
                 maxDist : (0 .. MaxRank) \cup {RankCap},
                 result : {0}]

CallGetDistance ==
    /\ dist.op = "pending"
    /\ dist' = [dist EXCEPT
                    !.op = "GetDistance",
                    !.result = GetDistance(dist.mapA, dist.mapB, dist.maxDist)]
    /\ UNCHANGED <<Languages, MinimumConfidence, call, proc>>

NextDistance == CallGetDistance

SpecDistance == InitDistance /\ [][NextDistance]_vars

---------------------------------------------------------------------------
(* Goroutines sharing one Detector.  Each runs one operation; a step is    *)
(* one access to the shared Detector with the local work that follows it.  *)
(* The code takes no lock anywhere.                                        *)

InitConcurrent ==
    /\ Languages = PtrTo(<< >>)
    /\ MinimumConfidence \in {DefaultMinimumConfidence, 0}
    /\ call = NoCall
    /\ dist = NoDist
    /\ proc = [p \in Procs |-> IdleProc]

\* go d.AddLanguage(languages...)
GoAddLanguage(p, languages) ==
    /\ proc[p].pc = "idle"
    /\ proc' = [proc EXCEPT ![p] = [IdleProc EXCEPT
                    !.pc = "add_nil", !.op = "AddLanguage",
                    !.langs = languages]]
    /\ UNCHANGED <<Languages, MinimumConfidence, call, dist>>

\* go d.AddLanguageFromText(text, name); line 118 works on the arguments
GoAddLanguageFromText(p, textToAnalyze, languageName) ==
    /\ proc[p].pc = "idle"
    /\ proc' = [proc EXCEPT ![p] = [IdleProc EXCEPT
                    !.pc = "add_nil", !.op = "AddLanguageFromText",
                    !.langs = <<Analyze(textToAnalyze, languageName)>>]]
    /\ UNCHANGED <<Languages, MinimumConfidence, call, dist>>

\* lines 114-117, 125-128
AddNilCheck(p) ==
    /\ proc[p].pc = "add_nil"
    /\ Languages' = IF Languages = NilPtr THEN PtrTo(<< >>) ELSE Languages
    /\ proc' = [proc EXCEPT ![p].pc = "add_read"]
    /\ UNCHANGED <<MinimumConfidence, call, dist>>

\* lines 119, 129-132: the slice is read, the appends are local
AddRead(p) ==
    /\ proc[p].pc = "add_read"
    /\ proc' = [proc EXCEPT ![p].pc = "add_write",
                            ![p].l = AppendAll(Languages[1], proc[p].langs)]
    /\ UNCHANGED <<Languages, MinimumConfidence, call, dist>>

\* lines 120, 133
AddWrite(p) ==
    /\ proc[p].pc = "add_write"
    /\ Languages' = PtrTo(proc[p].l)
    /\ proc' = [proc EXCEPT ![p].pc = "done"]
    /\ UNCHANGED <<MinimumConfidence, call, dist>>

\* go d.GetClosestLanguage(text)
GoGetClosestLanguage(p, text) ==
    /\ proc[p].pc = "idle"
    /\ proc' = [proc EXCEPT ![p] = [IdleProc EXCEPT
                    !.pc = "gcl_check", !.op = "GetClosestLanguage",
                    !.text = text]]
    /\ UNCHANGED <<Languages, MinimumConfidence, call, dist>>

\* line 139: MinimumConfidence is read
GclCheck(p) ==
    /\ proc[p].pc = "gcl_check"
    /\ proc' = [proc EXCEPT ![p].pc =
                    IF Validated(MinimumConfidence) # MinimumConfidence
                    THEN "gcl_default"
                    ELSE "gcl_len"]
    /\ UNCHANGED <<Languages, MinimumConfidence, call, dist>>

\* line 140: MinimumConfidence is written
GclDefault(p) ==
    /\ proc[p].pc = "gcl_default"
    /\ MinimumConfidence' = DefaultMinimumConfidence
    /\ proc' = [proc EXCEPT ![p].pc = "gcl_len"]
    /\ UNCHANGED <<Languages, call, dist>>

\* lines 142-145
GclLen(p) ==
    /\ proc[p].pc = "gcl_len"
    /\ proc' = IF Len(Languages[1]) = 0
               THEN [proc EXCEPT ![p].pc = "done", ![p].out = Undefined]
               ELSE [proc EXCEPT ![p].pc = "gcl_score"]
    /\ UNCHANGED <<Languages, MinimumConfidence, call, dist>>

\* lines 146-148: closestFromTable ranges over the slice as it is now
GclScore(p) ==
    /\ proc[p].pc = "gcl_score"
    /\ \E raw \in ScoreAll(Languages[1], proc[p].text) :
       \E c \in ResByConf(raw) :
            proc' = [proc EXCEPT ![p].pc = "gcl_compare", ![p].c = c]
    /\ UNCHANGED <<Languages, MinimumConfidence, call, dist>>

\* lines 150-153
GclCompare(p) ==
    /\ proc[p].pc = "gcl_compare"
    /\ proc' = [proc EXCEPT
                    ![p].pc = "done",
                    ![p].out = Closest(proc[p].c, MinimumConfidence)]
    /\ UNCHANGED <<Languages, MinimumConfidence, call, dist>>

\* go d.GetLanguages(text), lines 157-162
GoGetLanguages(p, text) ==
    /\ proc[p].pc = "idle"
    /\ proc' = [proc EXCEPT ![p] = [IdleProc EXCEPT
                    !.pc = "gl_score", !.op = "GetLanguages", !.text = text]]
    /\ UNCHANGED <<Languages, MinimumConfidence, call, dist>>

GlScore(p) ==
    /\ proc[p].pc = "gl_score"
    /\ \E raw \in ScoreAll(Languages[1], proc[p].text) :
       \E c \in ResByConf(raw) :
            proc' = [proc EXCEPT ![p].pc = "done", ![p].c = c]
    /\ UNCHANGED <<Languages, MinimumConfidence, call, dist>>

NextConcurrent ==
    \E p \in Procs :
        \/ \E languages \in {<<EnShifted>>, <<FrEmpty>>} :
                GoAddLanguage(p, languages)
        \/ GoAddLanguageFromText(p, ShortText, "en")
        \/ AddNilCheck(p)
        \/ AddRead(p)
        \/ AddWrite(p)
        \/ \E text \in {EmptyText, OneLetterText} : GoGetClosestLanguage(p, text)
        \/ GclCheck(p)
        \/ GclDefault(p)
        \/ GclLen(p)
        \/ GclScore(p)
        \/ GclCompare(p)
        \/ \E text \in {EmptyText, OneLetterText} : GoGetLanguages(p, text)
        \/ GlScore(p)

SpecConcurrent == InitConcurrent /\ [][NextConcurrent]_vars

---------------------------------------------------------------------------
(* Properties *)

\* the last call scored the text against the held languages
Scored ==
    /\ call.op \in {"GetClosestLanguage", "GetLanguages"}
    /\ ~call.panic
    /\ Len(Held) >= 1

IsPrefix(s, t) == Len(s) <= Len(t) /\ SubSeq(t, 1, Len(s)) = s

RECURSIVE SumOver(_, _)
\* the sum of f[k] over the keys k in S
SumOver(S, f) ==
    IF S = {} THEN 0
    ELSE LET k == CHOOSE x \in S : TRUE
         IN  f[k] + SumOver(S \ {k}, f)

\* C1: with at least one language held, GetClosestLanguage returns the name
\* of the highest-confidence result exactly when that confidence is at
\* least MinimumConfidence x 100 (MinimumConfidence is in thousandths, so
\* Confidence * 10 >= MinimumConfidence), and "undefined" otherwise.
C1_NameIffAtLeastThreshold ==
    (Scored /\ call.op = "GetClosestLanguage") =>
        LET top == call.c[1]
        IN  /\ \A i \in 1 .. Len(call.raw) :
                    call.raw[i].Confidence <= top.Confidence
            /\ IF top.Confidence * 10 >= MinimumConfidence
               THEN call.out = top.Name
               ELSE call.out = Undefined

\* the distance the specification describes: over the tokens of mapA of
\* rank at most 300, maxDist for a token absent from mapB, else the rank
\* displacement capped at maxDist
DescribedDistance(mapA, mapB, maxDist) ==
    LET considered == {k \in DOMAIN mapA : mapA[k] <= 300}
        part == [k \in considered |->
                    IF k \notin DOMAIN mapB THEN maxDist
                    ELSE Min(Abs(mapB[k] - mapA[k]), maxDist)]
    IN  SumOver(considered, part)

C3_DistanceAndConfidenceBounded ==
    Scored =>
        \A i \in 1 .. Len(Held) :
            LET sample == lmapOf[call.text]
                S == Size(Held[i].Profile)
                d == GetDistance(sample, Held[i].Profile, S)
            IN  /\ 0 <= d
                /\ d <= S * Min(Size(sample), 300)
                /\ call.raw[i].Confidence \in 0 .. 100

\* C4: a non-empty rank map scored against a language whose profile is that
\* same rank map has distance 0 and confidence 100.
C4_SelfSimilarity ==
    Scored =>
        \A i \in 1 .. Len(Held) :
            LET m == lmapOf[call.text]
            IN  (Size(m) > 0 /\ Held[i].Profile = m) =>
                    /\ GetDistance(m, m, Size(m)) = 0
                    /\ call.raw[i].Confidence = 100

\* C4 happens: the text of more than 300 tokens is scored against the
\* language trained from it
C4_Witness ==
    /\ Scored
    /\ Size(lmapOf[call.text]) > RankCap
    /\ \E i \in 1 .. Len(Held) :
            /\ Held[i].Profile = lmapOf[call.text]
            /\ call.raw[i].Confidence = 100

\* C5: a held language with a profile of size 0 is reported with
\* confidence 0, and every held language gets a result.
C5_EmptyProfileScoresZero ==
    Scored =>
        /\ Len(call.raw) = Len(Held)
        /\ \A i \in 1 .. Len(Held) :
                Size(Held[i].Profile) = 0 => call.raw[i].Confidence = 0

\* C6: with only non-empty profiles held, the empty text gets one
\* confidence within 0 .. 100 per held language, and GetClosestLanguage
\* of the empty text returns "undefined".
C6_EmptyTextIsScored ==
    ( /\ Scored
      /\ Size(lmapOf[call.text]) = 0
      /\ \A i \in 1 .. Len(Held) : Size(Held[i].Profile) > 0 ) =>
        /\ Len(call.raw) = Len(Held)
        /\ \A i \in 1 .. Len(Held) : call.raw[i].Confidence \in 0 .. 100
        /\ call.op = "GetClosestLanguage" => call.out = Undefined

\* C7: on a Detector that holds no language, however it was made,
\* GetClosestLanguage does not fault, prints the diagnostic and returns
\* "undefined".
C7_NoLanguagesIsUndefined ==
    (call.op = "GetClosestLanguage" /\ Len(Held) = 0) =>
        /\ ~call.panic
        /\ call.printed
        /\ call.out = Undefined

C9_CollectionOnlyGrows == [][IsPrefix(Held, Held')]_vars

\* C9 as amended: every operation but a LoadLanguagesFromDir that returns
\* no error leaves the languages held before it in place, additions at
\* the end.
C9_AddsOnlyGrow ==
    [][(call'.op = "LoadLanguagesFromDir" /\ ~call'.err)
            \/ IsPrefix(Held, Held')]_vars

\* C9 happens: an add operation has put languages behind those held
C9_Witness ==
    /\ call.op \in {"AddLanguage", "AddLanguageFromText"}
    /\ call.added >= 1
    /\ Len(Held) > call.added

---------------------------------------------------------------------------
(* Properties of the goroutines *)

AddOps == {"AddLanguage", "AddLanguageFromText"}

\* p has read the collection and not yet written it back
InsideAdd(p) == proc[p].op \in AddOps /\ proc[p].pc = "add_write"

\* p is between two of its accesses to the collection
InsideAccess(p) == InsideAdd(p) \/ proc[p].pc = "gcl_score"

\* p has read an invalid MinimumConfidence at line 139 and has not yet
\* written the default at line 140
ReadInvalidThreshold(p) == proc[p].pc = "gcl_default"

\* the number of languages the goroutines add
TotalAdded ==
    LET added == [p \in Procs |->
                    IF proc[p].op \in AddOps THEN Len(proc[p].langs) ELSE 0]
    IN  SumOver(Procs, added)

\* C10: an add is mutually exclusive with every other access to the
\* collection, concurrent adds lose no language, and no detection call
\* writes what a concurrent call reads: the MinimumConfidence a call has
\* read is not written by another call before the first goes on.
C10_AddsExclusiveDetectionsReadOnly ==
    /\ \A p, q \in Procs : (p # q /\ InsideAdd(p)) => ~InsideAccess(q)
    /\ (\A p \in Procs : proc[p].pc = "done") => Len(Held) = TotalAdded
    /\ \A p \in Procs :
            ReadInvalidThreshold(p) => MinimumConfidence \notin 1 .. 1000

===========================================================================
